---- MODULE Spec2Model ----
(***************************************************************************)
(* Authorization dependencies of app/shared/dependencies.py:               *)
(*   get_current_user, get_optional_current_user, require_role (and its    *)
(*   four presets) and require_permission.                                 *)
(*                                                                         *)
(* The persisted tables (users, permission templates, permissions,         *)
(* template items) are sequences of rows, a row's id being its position;   *)
(* query(...).filter(...).first() is the first row of the sequence that    *)
(* satisfies the filter, or None.  A request in flight (which dependency,  *)
(* built with which parameters, carrying which bearer token) is handled by *)
(* the action of that dependency; the same request may be handled again.   *)
(***************************************************************************)
EXTENDS Integers, Sequences, FiniteSets

VARIABLES users, templates, permissions, items, request, response, calls

vars == <<users, templates, permissions, items, request, response, calls>>

tables == <<users, templates, permissions, items>>

(* ------------------------------ bounds -------------------------------- *)

\* Roles stored in user rows: 1..MaxRole, one more than the mapped roles 1..5.
MaxRole == 6

\* min_level a check is built with: 0..MaxMinLevel, one more than level 4.
MaxMinLevel == 5

\* How many times the request in flight is handled.
MaxCalls == 2

\* Primary keys of the rows a table may hold; a table holds at most one row
\* per key, and at most one template item per slot.
UserIds == {1}

TemplateIds == {1, 2}

PermissionIds == {1}

ItemSlots == {1}

(* ------------------------- program constants -------------------------- *)

HTTP_401_UNAUTHORIZED == 401

HTTP_403_FORBIDDEN == 403

HTTP_500_INTERNAL_SERVER_ERROR == 500

MaxPermissionLevel == 4

ADMIN_ROLE == 1

MANAGER_ROLE == 2

EMPLOYEE_ROLE == 3

ANY_USER_ROLE == 5

(* --------------------------- value domains ---------------------------- *)

Roles == 1..MaxRole

MinimumRoles == 0..(MaxRole + 1)

Levels == 0..MaxPermissionLevel

MinLevels == 0..MaxMinLevel

Entities == {"users", "invoices"}

Actions == {"delete", "update"}

TemplateNames == {"Admin", "Guest"}

\* A row that stands for Python's None wherever a user row is expected.
NoUser == [id |-> 0, role |-> 0, is_active |-> FALSE]

\* Bearer tokens by what jwt.decode makes of them: "missing" is an absent
\* or empty token, "invalid" raises JWTError (malformed, tampered, expired),
\* "valid" decodes to a payload whose "sub" is 0 (no sub claim) or an id.
UnknownIds == {Cardinality(UserIds) + 1}

Tokens ==
    {[kind |-> "invalid", sub |-> 0]}
        \cup {[kind |-> "valid", sub |-> s] : s \in {0} \cup UserIds \cup UnknownIds}

MissingToken == [kind |-> "missing", sub |-> 0]

(* ------------------------------ results ------------------------------- *)

NoDetail == [msg |-> "", strs |-> <<>>, nums |-> <<>>]

Return(user) ==
    [kind |-> "user", user |-> user, status |-> 0, detail |-> NoDetail]

ReturnNone ==
    [kind |-> "none", user |-> NoUser, status |-> 0, detail |-> NoDetail]

\* raise HTTPException(status_code=status, detail=f"msg {strs} {nums}")
Raise(status, msg, strs, nums) ==
    [kind |-> "raise", user |-> NoUser, status |-> status,
     detail |-> [msg |-> msg, strs |-> strs, nums |-> nums]]

Pending ==
    [kind |-> "pending", user |-> NoUser, status |-> 0, detail |-> NoDetail]

(* ------------------------------ requests ------------------------------ *)

\* A request names the dependency attached to the operation, the parameters
\* the dependency was built with, and the bearer token it carries.
Req(dep, token, minimum_role, entity, action, min_level) ==
    [dep |-> dep, token |-> token, minimum_role |-> minimum_role,
     entity |-> entity, action |-> action, min_level |-> min_level]

RequestKeys == {<<"users", "delete">>}

Requests ==
    {Req("get_current_user", t, 0, "", "", 0) : t \in Tokens}
        \cup {Req("get_optional_current_user", t, 0, "", "", 0) :
                t \in Tokens \cup {MissingToken}}
        \cup {Req("require_role", t, m, "", "", 0) :
                t \in Tokens, m \in MinimumRoles}
        \cup {Req(d, t, 0, "", "", 0) :
                d \in {"require_admin", "require_manager",
                       "require_employee", "require_any_user"},
                t \in Tokens}
        \cup {Req("require_permission", t, 0, k[1], k[2], l) :
                t \in Tokens, k \in RequestKeys, l \in MinLevels}

(* ------------------------------- tables ------------------------------- *)

SeqsUpTo(S, n) == UNION {[1..k -> S] : k \in 0..n}

\* Rows carry their primary key, which is their position in the table.
KeyedById(rows) == \A i \in DOMAIN rows : rows[i].id = i

UserRows == [id : UserIds, role : Roles, is_active : BOOLEAN]

TemplateRows ==
    [id : TemplateIds, role_name : TemplateNames, is_active : BOOLEAN]

PermissionRows == [id : PermissionIds, entity : Entities, action : Actions]

ItemRows ==
    [template_id : TemplateIds, permission_id : PermissionIds,
     permission_level : Levels]

\* At most one active template per role name.
UniqueActiveTemplates(rows) ==
    \A i, j \in DOMAIN rows :
        (rows[i].is_active /\ rows[j].is_active
            /\ rows[i].role_name = rows[j].role_name) => i = j

\* (entity, action) identifies a permission.
UniquePermissions(rows) ==
    \A i, j \in DOMAIN rows :
        (rows[i].entity = rows[j].entity /\ rows[i].action = rows[j].action)
            => i = j

\* At most one item per (template, permission) pair.
UniqueItems(rows) ==
    \A i, j \in DOMAIN rows :
        (rows[i].template_id = rows[j].template_id
            /\ rows[i].permission_id = rows[j].permission_id) => i = j

\* query(...).filter(...).first(), given the positions of the rows that
\* pass the filter: the first of them, 0 for None.
First(hits) ==
    IF hits = {} THEN 0 ELSE CHOOSE i \in hits : \A j \in hits : i <= j

(* ------------------------- get_current_user --------------------------- *)

credentials_exception ==
    Raise(HTTP_401_UNAUTHORIZED, "No se pudieron validar las credenciales",
          <<>>, <<>>)

\* jwt.decode(token, SECRET_KEY, algorithms=[ALGORITHM]) followed by
\* payload.get("sub"): -1 when decoding raises JWTError, 0 when the payload
\* carries no "sub", the user id otherwise.
decode_sub(token) == IF token.kind = "valid" THEN token.sub ELSE 0 - 1

\* db.query(User).filter(User.id == user_id).first()
find_user(db_users, user_id) ==
    First({i \in DOMAIN db_users :
            /\ db_users[i].id = user_id})

\* Variant: the is_active test left out.
get_current_user_any_state(token, db_users) ==
    LET user_id == decode_sub(token)
    IN  IF user_id = 0 - 1 \/ user_id = 0 THEN credentials_exception
        ELSE LET u == find_user(db_users, user_id)
             IN  IF u = 0 THEN credentials_exception
                 ELSE Return(db_users[u])

get_current_user(token, db_users) ==
    LET user_id == decode_sub(token)
    IN  IF user_id = 0 - 1 \/ user_id = 0 THEN credentials_exception
        ELSE LET u == find_user(db_users, user_id)
             IN  IF u = 0 THEN credentials_exception
                 ELSE IF ~db_users[u].is_active
                      THEN Raise(HTTP_403_FORBIDDEN, "Usuario inactivo",
                                 <<>>, <<>>)
                      ELSE Return(db_users[u])

\* Variant: only the 401 of get_current_user collapses to None.
get_optional_current_user_401_only(token, db_users) ==
    IF token.kind = "missing" THEN ReturnNone
    ELSE LET r == get_current_user(token, db_users)
         IN  IF r.kind = "raise" /\ r.status = HTTP_401_UNAUTHORIZED
             THEN ReturnNone
             ELSE r

get_optional_current_user(token, db_users) ==
    IF token.kind = "missing" THEN ReturnNone
    ELSE LET r == get_current_user(token, db_users)
         IN  IF r.kind = "raise" THEN ReturnNone ELSE r

(* ---------------------------- require_role ---------------------------- *)

\* Variant: >= in place of >.
role_checker_exclusive(minimum_role, current_user) ==
    IF current_user.role >= minimum_role
    THEN Raise(HTTP_403_FORBIDDEN, "Se requiere rol de nivel o superior",
               <<>>, <<minimum_role>>)
    ELSE Return(current_user)

role_checker(minimum_role, current_user) ==
    IF current_user.role > minimum_role
    THEN Raise(HTTP_403_FORBIDDEN, "Se requiere rol de nivel o superior",
               <<>>, <<minimum_role>>)
    ELSE Return(current_user)

\* Depends(get_current_user): a failure of the inner dependency is the
\* failure of the check, otherwise the check runs on the resolved user.
require_role(minimum_role, token, db_users) ==
    LET cu == get_current_user(token, db_users)
    IN  IF cu.kind = "raise" THEN cu ELSE role_checker(minimum_role, cu.user)

require_admin(token, db_users) == require_role(ADMIN_ROLE, token, db_users)

require_manager(token, db_users) == require_role(MANAGER_ROLE, token, db_users)

require_employee(token, db_users) ==
    require_role(EMPLOYEE_ROLE, token, db_users)

require_any_user(token, db_users) ==
    require_role(ANY_USER_ROLE, token, db_users)

(* ------------------------- require_permission ------------------------- *)

role_mapping ==
    [r \in 1..5 |->
        CASE r = 1 -> "Admin"
          [] r = 2 -> "Manager"
          [] r = 3 -> "Collaborator"
          [] r = 4 -> "Reader"
          [] r = 5 -> "Guest"]

\* role_mapping.get(role): "" stands for None.
role_mapping_get(role) ==
    IF role \in DOMAIN role_mapping THEN role_mapping[role] ELSE ""

\* Variant: the is_active filter left out.
find_template_any_state(db_templates, role_name) ==
    First({i \in DOMAIN db_templates :
            /\ db_templates[i].role_name = role_name})

\* db.query(PermissionTemplate).filter(role_name == ..., is_active == True)
find_template(db_templates, role_name) ==
    First({i \in DOMAIN db_templates :
            /\ db_templates[i].role_name = role_name
            /\ db_templates[i].is_active = TRUE})

\* Variant: the action filter left out.
find_permission_by_entity(db_permissions, entity, action) ==
    First({i \in DOMAIN db_permissions :
            /\ db_permissions[i].entity = entity})

\* db.query(Permission).filter(entity == ..., action == ...)
find_permission(db_permissions, entity, action) ==
    First({i \in DOMAIN db_permissions :
            /\ db_permissions[i].entity = entity
            /\ db_permissions[i].action = action})

\* Variant: the template_id filter left out.
find_template_item_any_template(db_items, template_id, permission_id) ==
    First({i \in DOMAIN db_items :
            /\ db_items[i].permission_id = permission_id})

\* db.query(PermissionTemplateItem).filter(template_id == ...,
\*                                         permission_id == ...)
find_template_item(db_items, template_id, permission_id) ==
    First({i \in DOMAIN db_items :
            /\ db_items[i].template_id = template_id
            /\ db_items[i].permission_id = permission_id})

invalid_role_error(role) ==
    Raise(HTTP_403_FORBIDDEN, "Rol de usuario invalido", <<>>, <<role>>)

no_template_error(role_name) ==
    Raise(HTTP_403_FORBIDDEN,
          "No se encontro configuracion de permisos para el rol",
          <<role_name>>, <<>>)

permission_not_configured_error(entity, action) ==
    Raise(HTTP_500_INTERNAL_SERVER_ERROR, "Permiso no configurado",
          <<entity, action>>, <<>>)

role_lacks_permission_error(role_name, entity, action) ==
    Raise(HTTP_403_FORBIDDEN, "Tu rol no tiene permiso para",
          <<role_name, entity, action>>, <<>>)

insufficient_level_error(min_level, permission_level) ==
    Raise(HTTP_403_FORBIDDEN, "Nivel de permiso insuficiente",
          <<>>, <<min_level, permission_level>>)

\* Variant: <= in place of <.
check_level_exclusive(min_level, template_item, current_user) ==
    IF template_item.permission_level <= min_level
    THEN insufficient_level_error(min_level, template_item.permission_level)
    ELSE Return(current_user)

\* Step 5 on the item found by step 4.
check_level(min_level, template_item, current_user) ==
    IF template_item.permission_level < min_level
    THEN insufficient_level_error(min_level, template_item.permission_level)
    ELSE Return(current_user)

permission_checker(entity, action, min_level, current_user, db_templates, db_permissions, db_items) ==
    LET role_name == role_mapping_get(current_user.role)
    IN  IF role_name = "" THEN invalid_role_error(current_user.role)
        ELSE
        LET t == find_template(db_templates, role_name)
        IN  IF t = 0 THEN no_template_error(role_name)
            ELSE
            LET p == find_permission(db_permissions, entity, action)
            IN  IF p = 0 THEN permission_not_configured_error(entity, action)
                ELSE
                LET it == find_template_item(db_items, db_templates[t].id,
                                             db_permissions[p].id)
                IN  IF it = 0
                    THEN role_lacks_permission_error(role_name, entity, action)
                    ELSE check_level(min_level, db_items[it], current_user)

\* Depends(get_current_user), then permission_checker on the same session.
require_permission(entity, action, min_level, token, db_users, db_templates, db_permissions, db_items) ==
    LET cu == get_current_user(token, db_users)
    IN  IF cu.kind = "raise" THEN cu
        ELSE permission_checker(entity, action, min_level, cu.user,
                                db_templates, db_permissions, db_items)

(* ---------------------------- state machine --------------------------- *)

\* Rows as in the worked scenarios (an active "Admin" and an active "Guest"
\* template, one permission bound to "Admin" at the top level), used where
\* the request's dependency never queries the permission tables.
SeedTemplates ==
    <<[id |-> 1, role_name |-> "Admin", is_active |-> TRUE],
      [id |-> 2, role_name |-> "Guest", is_active |-> TRUE]>>

SeedPermissions == <<[id |-> 1, entity |-> "users", action |-> "delete"]>>

SeedItems ==
    <<[template_id |-> 1, permission_id |-> 1,
       permission_level |-> MaxPermissionLevel]>>

\* The contents of the three permission tables: every content within the
\* bounds for a request that require_permission handles; empty or seeded
\* for a request whose dependency only reads the users table.
PermissionTables(req) ==
    IF req.dep = "require_permission"
    THEN {<<t, p, i>> :
            t \in {r \in SeqsUpTo(TemplateRows, Cardinality(TemplateIds)) :
                     KeyedById(r) /\ UniqueActiveTemplates(r)},
            p \in {r \in SeqsUpTo(PermissionRows, Cardinality(PermissionIds)) :
                     KeyedById(r) /\ UniquePermissions(r)},
            i \in {r \in SeqsUpTo(ItemRows, Cardinality(ItemSlots)) :
                     UniqueItems(r)}}
    ELSE {<<<<>>, <<>>, <<>>>>, <<SeedTemplates, SeedPermissions, SeedItems>>}

Init ==
    /\ users \in SeqsUpTo(UserRows, Cardinality(UserIds))
    /\ KeyedById(users)
    /\ request \in Requests
    /\ \E pt \in PermissionTables(request) :
        /\ templates = pt[1]
        /\ permissions = pt[2]
        /\ items = pt[3]
    /\ response = Pending
    /\ calls = 0

\* Each action is one invocation of the dependency the request names: the
\* dependency only queries the session, and what it returns or raises is
\* the response.

GetCurrentUser ==
    /\ request.dep = "get_current_user"
    /\ calls < MaxCalls
    /\ response' = get_current_user(request.token, users)
    /\ calls' = calls + 1
    /\ UNCHANGED <<users, templates, permissions, items, request>>

GetOptionalCurrentUser ==
    /\ request.dep = "get_optional_current_user"
    /\ calls < MaxCalls
    /\ response' = get_optional_current_user(request.token, users)
    /\ calls' = calls + 1
    /\ UNCHANGED <<users, templates, permissions, items, request>>

RequireRole ==
    /\ request.dep = "require_role"
    /\ calls < MaxCalls
    /\ response' = require_role(request.minimum_role, request.token, users)
    /\ calls' = calls + 1
    /\ UNCHANGED <<users, templates, permissions, items, request>>

RequireAdmin ==
    /\ request.dep = "require_admin"
    /\ calls < MaxCalls
    /\ response' = require_admin(request.token, users)
    /\ calls' = calls + 1
    /\ UNCHANGED <<users, templates, permissions, items, request>>

RequireManager ==
    /\ request.dep = "require_manager"
    /\ calls < MaxCalls
    /\ response' = require_manager(request.token, users)
    /\ calls' = calls + 1
    /\ UNCHANGED <<users, templates, permissions, items, request>>

RequireEmployee ==
    /\ request.dep = "require_employee"
    /\ calls < MaxCalls
    /\ response' = require_employee(request.token, users)
    /\ calls' = calls + 1
    /\ UNCHANGED <<users, templates, permissions, items, request>>

RequireAnyUser ==
    /\ request.dep = "require_any_user"
    /\ calls < MaxCalls
    /\ response' = require_any_user(request.token, users)
    /\ calls' = calls + 1
    /\ UNCHANGED <<users, templates, permissions, items, request>>

\* Variant: a check that deletes the template items once it has authorized.
RequirePermission_consuming ==
    /\ request.dep = "require_permission"
    /\ calls < MaxCalls
    /\ response' = require_permission(request.entity, request.action,
                                      request.min_level, request.token,
                                      users, templates, permissions, items)
    /\ items' = IF response'.kind = "user" THEN <<>> ELSE items
    /\ calls' = calls + 1
    /\ UNCHANGED <<users, templates, permissions, request>>

RequirePermission ==
    /\ request.dep = "require_permission"
    /\ calls < MaxCalls
    /\ response' = require_permission(request.entity, request.action,
                                      request.min_level, request.token,
                                      users, templates, permissions, items)
    /\ calls' = calls + 1
    /\ UNCHANGED <<users, templates, permissions, items, request>>

Next ==
    \/ GetCurrentUser
    \/ GetOptionalCurrentUser
    \/ RequireRole
    \/ RequireAdmin
    \/ RequireManager
    \/ RequireEmployee
    \/ RequireAnyUser
    \/ RequirePermission

Spec == Init /\ [][Next]_vars

(* ------------------------ vocabulary of the claims -------------------- *)

Range(rows) == {rows[i] : i \in DOMAIN rows}

Handled == calls > 0

IsPermissionCheck == request.dep = "require_permission"

\* The stored principal the token names: the token verifies and its subject
\* is the id of a user row.
NamedPrincipals ==
    {u \in Range(users) : request.token.kind = "valid" /\ u.id = request.token.sub}

\* The principal the Principal Resolver resolves: named by the token, active.
ResolvedPrincipals == {u \in NamedPrincipals : u.is_active}

MappedRole(u) == u.role \in DOMAIN role_mapping

\* The active templates whose name is the one the principal's role maps to.
ActiveTemplates(u) ==
    {t \in Range(templates) :
        /\ MappedRole(u)
        /\ t.is_active
        /\ t.role_name = role_mapping[u.role]}

\* The Permission rows registered for the requested (entity, action).
RegisteredPermissions ==
    {p \in Range(permissions) :
        p.entity = request.entity /\ p.action = request.action}

\* The template items binding template t to permission p.
Bindings(t, p) ==
    {it \in Range(items) : it.template_id = t.id /\ it.permission_id = p.id}

IsForbidden == response.kind = "raise" /\ response.status = HTTP_403_FORBIDDEN

IsConfigurationError ==
    response.kind = "raise" /\ response.status = HTTP_500_INTERNAL_SERVER_ERROR

IsUnauthenticated ==
    response.kind = "raise" /\ response.status = HTTP_401_UNAUTHORIZED

(* -------------------------------- C1 ---------------------------------- *)

\* C1 as stated: with no Permission row for (entity, action), the check of
\* require_permission fails with the configuration error (500) for every
\* resolved principal, whatever its role and whether or not its role is
\* mapped or has an active template.
C1_UnregisteredAlwaysConfigurationError ==
    (Handled /\ IsPermissionCheck /\ RegisteredPermissions = {})
        => \A u \in ResolvedPrincipals : IsConfigurationError

\* C1 as amended: with no Permission row for (entity, action), the check
\* never authorizes, and it fails with the configuration error (500,
\* naming entity and action) for every resolved principal whose role is
\* mapped and has an active template; the role and template steps come
\* first.
C1_UnregisteredConfigurationErrorAfterTemplate ==
    (Handled /\ IsPermissionCheck /\ RegisteredPermissions = {})
        => \A u \in ResolvedPrincipals :
            /\ response.kind = "raise"
            /\ ActiveTemplates(u) # {}
                => /\ IsConfigurationError
                   /\ response.detail.msg = "Permiso no configurado"
                   /\ response.detail.strs = <<request.entity, request.action>>

\* A handled permission check on a principal with an active template, for
\* an (entity, action) of which only the entity is registered (with another
\* action), answered by the configuration error.
C1_Witness ==
    /\ Handled /\ IsPermissionCheck
    /\ RegisteredPermissions = {}
    /\ \E p \in Range(permissions) : p.entity = request.entity
    /\ \E u \in ResolvedPrincipals : ActiveTemplates(u) # {}
    /\ IsConfigurationError

(* -------------------------------- C2 ---------------------------------- *)

\* C2: for every resolved principal whose role is not a key of the role
\* mapping, the check of require_permission fails with the configuration
\* error for an invalid role, a server-side error distinguishable from the
\* Forbidden kind of the authorization denials.
C2_UnmappedRoleIsConfigurationError ==
    (Handled /\ IsPermissionCheck)
        => \A u \in ResolvedPrincipals :
            ~MappedRole(u)
                => /\ response.kind = "raise"
                   /\ response.detail.msg = "Rol de usuario invalido"
                   /\ IsConfigurationError
                   /\ ~IsForbidden

(* -------------------------------- C3 ---------------------------------- *)

\* C3: for a resolved principal with a mapped role, an active template, a
\* registered permission and a binding of level L, the check of
\* require_permission returns that principal when min_level <= L, and when
\* min_level > L fails with Forbidden, reporting min_level and L.
C3_LevelDecides ==
    (Handled /\ IsPermissionCheck)
        => \A u \in ResolvedPrincipals :
           \A t \in ActiveTemplates(u) :
           \A p \in RegisteredPermissions :
           \A it \in Bindings(t, p) :
                IF request.min_level <= it.permission_level
                THEN response = Return(u)
                ELSE /\ IsForbidden
                     /\ response.detail.nums =
                            <<request.min_level, it.permission_level>>

\* Scenario D: binding of level 2, min_level 3, rejected reporting (3, 2).
C3_Witness ==
    /\ Handled /\ IsPermissionCheck
    /\ request.min_level = 3
    /\ \E u \in ResolvedPrincipals :
       \E t \in ActiveTemplates(u) :
       \E p \in RegisteredPermissions :
       \E it \in Bindings(t, p) : it.permission_level = 2
    /\ IsForbidden
    /\ response.detail.nums = <<3, 2>>

(* -------------------------------- C4 ---------------------------------- *)

\* The minimum role the role gate named by the request was built with.
GateMinimum ==
    CASE request.dep = "require_role" -> request.minimum_role
      [] request.dep = "require_admin" -> ADMIN_ROLE
      [] request.dep = "require_manager" -> MANAGER_ROLE
      [] request.dep = "require_employee" -> EMPLOYEE_ROLE
      [] request.dep = "require_any_user" -> ANY_USER_ROLE

IsRoleGate ==
    request.dep \in {"require_role", "require_admin", "require_manager",
                     "require_employee", "require_any_user"}

\* C4: for every minimum_role and every resolved principal, the check of
\* require_role(minimum_role) rejects with Forbidden exactly when
\* principal.role > minimum_role, and otherwise returns that principal.
C4_RoleGateThreshold ==
    (Handled /\ IsRoleGate)
        => \A u \in ResolvedPrincipals :
            /\ IsForbidden <=> u.role > GateMinimum
            /\ u.role <= GateMinimum => response = Return(u)
            /\ u.role > GateMinimum
                => response.detail.nums = <<GateMinimum>>

\* The boundary: a principal whose role equals minimum_role is accepted.
C4_Witness ==
    /\ Handled /\ request.dep = "require_role"
    /\ \E u \in ResolvedPrincipals :
        u.role = request.minimum_role /\ response = Return(u)

(* -------------------------------- C5 ---------------------------------- *)

\* C5: require_any_user accepts every principal the Principal Resolver
\* resolves, whatever its role.
C5_AnyUserAcceptsEveryPrincipal ==
    (Handled /\ request.dep = "require_any_user")
        => \A u \in ResolvedPrincipals : response = Return(u)

(* -------------------------------- C6 ---------------------------------- *)

C7_ResolverOutcomes ==
    (Handled /\ request.dep = "get_current_user")
        => /\ NamedPrincipals = {} => IsUnauthenticated
           /\ \A u \in NamedPrincipals :
                IF u.is_active
                THEN response = Return(u)
                ELSE /\ IsForbidden
                     /\ response.detail.msg = "Usuario inactivo"

\* An inactive stored principal, named by a verifying token, is refused
\* with Forbidden.
C7_Witness ==
    /\ Handled /\ request.dep = "get_current_user"
    /\ \E u \in NamedPrincipals : ~u.is_active
    /\ IsForbidden

(* -------------------------------- C8 ---------------------------------- *)

\* C8: for a resolved principal with a mapped role and an active template,
\* and a registered permission the template has no binding for, the check
\* of require_permission fails with Forbidden (role lacks permission) for
\* every min_level, 0 included.
C8_NoBindingIsForbidden ==
    (Handled /\ IsPermissionCheck)
        => \A u \in ResolvedPrincipals :
           \A t \in ActiveTemplates(u) :
           \A p \in RegisteredPermissions :
                Bindings(t, p) = {}
                    => /\ IsForbidden
                       /\ response.detail.msg = "Tu rol no tiene permiso para"
                       /\ response.detail.strs =
                            <<t.role_name, request.entity, request.action>>

\* min_level 0, and the only binding of the permission belongs to another
\* template: Forbidden.
C8_Witness ==
    /\ Handled /\ IsPermissionCheck
    /\ request.min_level = 0
    /\ \E u \in ResolvedPrincipals :
       \E t \in ActiveTemplates(u) :
       \E p \in RegisteredPermissions :
            /\ Bindings(t, p) = {}
            /\ \E it \in Range(items) : it.permission_id = p.id
    /\ IsForbidden

(* -------------------------------- C9 ---------------------------------- *)

C10_PermissionGateSound ==
    (Handled /\ IsPermissionCheck)
        => /\ response.kind \in {"user", "raise"}
           /\ response.kind = "raise" => response.user = NoUser
           /\ response.kind = "user"
                => /\ response.user \in ResolvedPrincipals
                   /\ \E t \in ActiveTemplates(response.user) :
                      \E p \in RegisteredPermissions :
                      \E it \in Bindings(t, p) :
                            it.permission_level >= request.min_level

\* Authorized through the second template row: the first row has the
\* mapped name but is not active.
C10_Witness ==
    /\ Handled /\ IsPermissionCheck
    /\ response.kind = "user"
    /\ Len(templates) = 2
    /\ ~templates[1].is_active
    /\ templates[1].role_name = templates[2].role_name

====
